---- MODULE Spec2Model ----
(***************************************************************************)
(* The content revision and publication workflow of the notes platform:    *)
(* the topic routes of backend/src/routes/content.ts over the Prisma       *)
(* store.  Every handler is a sequence of awaited store calls; each        *)
(* awaited call is one atomic step, and the steps of concurrent requests   *)
(* interleave freely.                                                      *)
(***************************************************************************)
EXTENDS Integers, Sequences, FiniteSets, TLC

VARIABLES
    chapters,   \* Chapter table: chapter id -> row (only the ids that exist)
    topics,     \* Topic table: topic id -> row (only the ids that exist)
    versions,   \* TopicVersion table: set of rows
    audit,      \* AuditLog table: sequence of rows, in insertion order
    req,        \* per connection: the request it carries and its position
    now,        \* the server clock read by new Date()
    budget      \* number of requests still to be admitted

vars == <<chapters, topics, versions, audit, req, now, budget>>

----------------------------------------------------------------------------
(* Bounds of the model *)

\* Requests admitted in a behaviour with concurrent connections
MaxReqs == 2

\* Requests admitted in a behaviour with one connection
MaxSeqReqs == 3

\* Requests admitted in the life of one topic, from its chapter's creation on
MaxLifeReqs == 7

\* Requests admitted in a behaviour that publishes, withdraws and publishes again
MaxPublishReqs == 3

Procs == {1, 2}

Contents == {"", "a", "b"}

----------------------------------------------------------------------------
(* Values *)

Absent == "<absent>"

NoDate == 0

Statuses == {"DRAFT", "IN_REVIEW", "APPROVED", "PUBLISHED", "ARCHIVED"}

Roles == {"SUPER_ADMIN", "ADMIN", "MANAGER", "CONTRIBUTOR", "STUDENT"}

Anonymous == "<anonymous>"

Callers == Roles \cup {Anonymous}

ContributorUp == {"SUPER_ADMIN", "ADMIN", "MANAGER", "CONTRIBUTOR"}

ManagerUp == {"SUPER_ADMIN", "ADMIN", "MANAGER"}

NoData == [f \in {} |-> Absent]

Has(data, f) == f \in DOMAIN data

Field(f, v) == IF v = Absent THEN NoData ELSE (f :> v)

----------------------------------------------------------------------------
(* The store *)

Max(S) == IF S = {} THEN 0 ELSE CHOOSE m \in S : \A x \in S : x <= m

VersionsOf(t) == {r \in versions : r.topicId = t}

VersionNumbers(t) == {r.version : r \in VersionsOf(t)}

LatestVersion(t) == Max(VersionNumbers(t))

FindVersion(t, n) == {r \in versions : r.topicId = t /\ r.version = n}

\* prisma.topicVersion.create: the row is rejected when its topic is gone
\* (foreign key) or when (topicId, version) is taken (the compound unique key
\* topicId_version).
CanCreateVersion(t, n) == t \in DOMAIN topics /\ FindVersion(t, n) = {}

NextVersionSkips(latest) == latest + 2

\* version: latestVersion + 1
NextVersion(latest) == latest + 1

InsertVersionOverLatest(row) ==
    {r \in versions : ~(r.topicId = row.topicId /\ r.version = row.version - 1)} \cup {row}

\* the table after prisma.topicVersion.create({ data: row })
InsertVersion(row) == versions \cup {row}

VersionRowBlank(t, n, content, changelog) ==
    [topicId |-> t, version |-> n, content |-> "", changelog |-> changelog]

VersionRow(t, n, content, changelog) ==
    [topicId |-> t, version |-> n, content |-> content, changelog |-> changelog]

AuditRow(action, t) == [action |-> action, entityType |-> "Topic", entityId |-> t]

InsertAuditFirst(row) == <<row>> \o audit

\* the log after prisma.auditLog.create({ data: row })
InsertAudit(row) == Append(audit, row)

ApplyDataHides(row, data) ==
    [f \in DOMAIN row |->
        IF Has(data, f) THEN data[f] ELSE IF f = "isVisible" THEN FALSE ELSE row[f]]

ApplyDataResetsStatus(row, data) ==
    [f \in DOMAIN row |->
        IF Has(data, f) THEN data[f] ELSE IF f = "status" THEN "DRAFT" ELSE row[f]]

\* prisma.topic.update({ data }): only the supplied fields are written.
ApplyData(row, data) ==
    [f \in DOMAIN row |-> IF Has(data, f) THEN data[f] ELSE row[f]]

\* prisma.topic.delete: TopicVersion rows go with their topic (cascade).
DeleteTopicRow(t) ==
    /\ topics' = [x \in DOMAIN topics \ {t} |-> topics[x]]
    /\ versions' = {r \in versions : r.topicId # t}

\* prisma.topic.create: status, isVisible and publishedAt at their column
\* defaults
NewTopic(content, order) ==
    [chapterId |-> "c1", slug |-> "intro", content |-> content, status |-> "DRAFT",
     isVisible |-> TRUE, order |-> order, publishedAt |-> NoDate]

\* prisma.chapter.create: status and isVisible at their column defaults
NewChapter(subjectId, slug, order) ==
    [subjectId |-> subjectId, slug |-> slug, order |-> order, status |-> "DRAFT",
     isVisible |-> TRUE]

----------------------------------------------------------------------------
(* Requests *)

Idle ==
    [op |-> "none", pc |-> "idle", res |-> "none", t |-> "", data |-> NoData,
     changelog |-> Absent, version |-> "", existing |-> NoData, latest |-> 0,
     writes |-> 0, caller |-> ""]

Free(p) == req[p].pc \in {"idle", "done"}

\* A new request is carried by the first free connection.
FirstFree(p) == Free(p) /\ \A q \in Procs : Free(q) => ~(q < p)

Admit(p) == FirstFree(p) /\ budget > 0 /\ budget' = budget - 1

Begin(p, r) == req' = [req EXCEPT ![p] = r]


GateAdmitsContributor(role, allowed) ==
    IF role = Anonymous THEN "UNAUTHORIZED"
    ELSE IF role \notin allowed \cup {"CONTRIBUTOR"} THEN "FORBIDDEN"
    ELSE "pass"

\* authenticate followed by requireRole(allowed)
Gate(role, allowed) ==
    IF role = Anonymous THEN "UNAUTHORIZED"
    ELSE IF role \notin allowed THEN "FORBIDDEN"
    ELSE "pass"

\* The response sent: the connection keeps the operation and its outcome only.
Rejected(op, t, res) == [Idle EXCEPT !.op = op, !.t = t, !.pc = "done", !.res = res]

\* writes counts the store writes the request has committed.
Finish(p, res) ==
    req' = [req EXCEPT ![p] = [Rejected(req[p].op, req[p].t, res) EXCEPT
                                  !.writes = req[p].writes]]

FinishWrite(p, res) ==
    req' = [req EXCEPT ![p] = [Rejected(req[p].op, req[p].t, res) EXCEPT
                                  !.writes = req[p].writes + 1]]

Truthy(s) == s # Absent /\ s # ""

----------------------------------------------------------------------------
(* Accounts and tokens *)

\* the user rows: role and isActive
Users ==
    [u \in {"u1", "u2", "u3", "u4"} |->
        [role |-> IF u \in {"u1", "u2"} THEN "CONTRIBUTOR" ELSE "STUDENT",
         isActive |-> u \in {"u1", "u3"}]]

NoToken == "<no token>"

\* "u9" is the token of a user that is no longer stored
Tokens == DOMAIN Users \cup {"u9", NoToken}

\* authenticate: the role of req.user, or Anonymous when it answers
\* unauthorized (no token, no such user, account deactivated)
Authenticate(token) ==
    IF token = NoToken THEN Anonymous
    ELSE IF token \notin DOMAIN Users THEN Anonymous
    ELSE IF ~Users[token].isActive THEN Anonymous
    ELSE Users[token].role

\* optionalAuth: the role of req.user, or Anonymous when req.user is not set
OptionalAuth(token) ==
    IF token = NoToken THEN Anonymous
    ELSE IF token \in DOMAIN Users THEN Users[token].role
    ELSE Anonymous

----------------------------------------------------------------------------
(* PATCH /topics/:id *)

\* if (data.content && data.content !== existing.content)
ContentChanged(data, existing) ==
    /\ Has(data, "content")
    /\ Truthy(data.content)
    /\ data.content # existing.content

PromotesFromApproved(data, existing) ==
    /\ Has(data, "status")
    /\ data.status = "PUBLISHED"
    /\ existing.status = "APPROVED"

\* if (data.status === 'PUBLISHED' && existing.status !== 'PUBLISHED')
Promotes(data, existing) ==
    /\ Has(data, "status")
    /\ data.status = "PUBLISHED"
    /\ existing.status # "PUBLISHED"

\* changelog || 'Content updated'
ChangelogOrDefault(changelog) == IF Truthy(changelog) THEN changelog ELSE "Content updated"

UpdateTopicStart(p, role, t, data, changelog) ==
    /\ Admit(p)
    /\ UNCHANGED <<chapters, topics, versions, audit>>
    /\ IF Gate(role, ContributorUp) # "pass"
          THEN Begin(p, Rejected("updateTopic", t, Gate(role, ContributorUp))) /\ now' = now
       ELSE IF t \notin DOMAIN topics
          THEN Begin(p, Rejected("updateTopic", t, "NOT_FOUND")) /\ now' = now
       ELSE \E d \in IF Promotes(data, topics[t]) THEN {0, 1} ELSE {0} :
            /\ now' = now + d
            /\ Begin(p, [Idle EXCEPT
                   !.op = "updateTopic", !.t = t, !.pc = "update", !.res = "pending",
                   !.data = IF Promotes(data, topics[t])
                               THEN data @@ ("publishedAt" :> now')
                               ELSE data,
                   !.changelog = changelog,
                   !.existing = topics[t],
                   !.latest = LatestVersion(t)])

UpdateTopicWrite(p) ==
    /\ req[p].op = "updateTopic" /\ req[p].pc = "update"
    /\ UNCHANGED <<chapters, versions, audit, now, budget>>
    /\ IF req[p].t \notin DOMAIN topics
          THEN Finish(p, "INTERNAL") /\ topics' = topics
          ELSE /\ topics' = [topics EXCEPT ![req[p].t] = ApplyData(@, req[p].data)]
               /\ req' = [req EXCEPT
                      ![p].writes = @ + 1,
                      ![p].pc = IF ContentChanged(req[p].data, req[p].existing)
                                   THEN "version" ELSE "audit"]

UpdateTopicVersion(p) ==
    /\ req[p].op = "updateTopic" /\ req[p].pc = "version"
    /\ UNCHANGED <<chapters, topics, audit, now, budget>>
    /\ IF CanCreateVersion(req[p].t, NextVersion(req[p].latest))
          THEN /\ versions' = InsertVersion(
                      VersionRow(req[p].t, NextVersion(req[p].latest), req[p].data.content,
                                 ChangelogOrDefault(req[p].changelog)))
               /\ req' = [req EXCEPT ![p].writes = @ + 1, ![p].pc = "audit"]
          ELSE Finish(p, "INTERNAL") /\ versions' = versions

UpdateTopicAudit(p) ==
    /\ req[p].op = "updateTopic" /\ req[p].pc = "audit"
    /\ UNCHANGED <<chapters, topics, versions, now, budget>>
    /\ audit' = InsertAudit(AuditRow("UPDATE", req[p].t))
    /\ FinishWrite(p, "OK")

----------------------------------------------------------------------------
(* POST /topics/:id/versions/:version/restore *)

\* parseInt(version) of the route parameter
ParseInt(s) ==
    CASE s = "1" -> 1
      [] s = "2" -> 2
      [] s = "02" -> 2
      [] s = "3" -> 3
      [] s = "4" -> 4
      [] OTHER -> 0

RestoreChangelogParsed(version) == "Restored from version " \o ToString(ParseInt(version))

\* `Restored from version ${version}`
RestoreChangelog(version) == "Restored from version " \o version

RestoreStart(p, role, t, version) ==
    /\ Admit(p)
    /\ UNCHANGED <<chapters, topics, versions, audit, now>>
    /\ IF Gate(role, ManagerUp) # "pass"
          THEN Begin(p, Rejected("restoreVersion", t, Gate(role, ManagerUp)))
       ELSE IF FindVersion(t, ParseInt(version)) = {}
          THEN Begin(p, Rejected("restoreVersion", t, "NOT_FOUND"))
       ELSE \E tv \in FindVersion(t, ParseInt(version)) :
            Begin(p, [Idle EXCEPT
                !.op = "restoreVersion", !.t = t, !.pc = "latest", !.res = "pending",
                !.version = version,
                !.data = "content" :> tv.content])

RestoreLatest(p) ==
    /\ req[p].op = "restoreVersion" /\ req[p].pc = "latest"
    /\ UNCHANGED <<chapters, topics, versions, audit, now, budget>>
    /\ req' = [req EXCEPT ![p].latest = LatestVersion(req[p].t), ![p].pc = "update"]

RestoreWrite(p) ==
    /\ req[p].op = "restoreVersion" /\ req[p].pc = "update"
    /\ UNCHANGED <<chapters, versions, audit, now, budget>>
    /\ IF req[p].t \notin DOMAIN topics
          THEN Finish(p, "INTERNAL") /\ topics' = topics
          ELSE /\ topics' = [topics EXCEPT ![req[p].t] = ApplyData(@, req[p].data)]
               /\ req' = [req EXCEPT ![p].writes = @ + 1, ![p].pc = "version"]

RestoreVersion(p) ==
    /\ req[p].op = "restoreVersion" /\ req[p].pc = "version"
    /\ UNCHANGED <<chapters, topics, audit, now, budget>>
    /\ IF CanCreateVersion(req[p].t, NextVersion(req[p].latest))
          THEN /\ versions' = InsertVersion(
                      VersionRow(req[p].t, NextVersion(req[p].latest), req[p].data.content,
                                 RestoreChangelog(req[p].version)))
               /\ req' = [req EXCEPT ![p].writes = @ + 1, ![p].pc = "audit"]
          ELSE Finish(p, "INTERNAL") /\ versions' = versions

RestoreAudit(p) ==
    /\ req[p].op = "restoreVersion" /\ req[p].pc = "audit"
    /\ UNCHANGED <<chapters, topics, versions, now, budget>>
    /\ audit' = InsertAudit(AuditRow("RESTORE", req[p].t))
    /\ FinishWrite(p, "OK")

----------------------------------------------------------------------------
(* DELETE /topics/:id *)

DeleteTopicStart(p, role, t) ==
    /\ Admit(p)
    /\ UNCHANGED <<chapters, topics, versions, audit, now>>
    /\ IF Gate(role, ManagerUp) # "pass"
          THEN Begin(p, Rejected("deleteTopic", t, Gate(role, ManagerUp)))
       ELSE IF t \notin DOMAIN topics
          THEN Begin(p, Rejected("deleteTopic", t, "NOT_FOUND"))
       ELSE Begin(p, [Idle EXCEPT
                !.op = "deleteTopic", !.t = t, !.pc = "delete", !.res = "pending"])

DeleteTopicWrite(p) ==
    /\ req[p].op = "deleteTopic" /\ req[p].pc = "delete"
    /\ UNCHANGED <<chapters, audit, now, budget>>
    /\ IF req[p].t \notin DOMAIN topics
          THEN Finish(p, "INTERNAL") /\ UNCHANGED <<topics, versions>>
          ELSE /\ DeleteTopicRow(req[p].t)
               /\ req' = [req EXCEPT ![p].writes = @ + 1, ![p].pc = "audit"]

DeleteTopicAudit(p) ==
    /\ req[p].op = "deleteTopic" /\ req[p].pc = "audit"
    /\ UNCHANGED <<chapters, topics, versions, now, budget>>
    /\ audit' = InsertAudit(AuditRow("DELETE", req[p].t))
    /\ FinishWrite(p, "OK")

----------------------------------------------------------------------------
(* The review workflow: submit-review, approve, publish, reject, archive *)

WorkflowOps == {"submitReview", "approve", "publish", "reject", "archive"}

WorkflowRoles(op) == IF op = "submitReview" THEN ContributorUp ELSE ManagerUp

LegalFromLoose(op) ==
    CASE op = "submitReview" -> {"DRAFT"}
      [] op = "approve" -> {"IN_REVIEW", "DRAFT"}
      [] op = "publish" -> {"APPROVED", "DRAFT"}
      [] op = "reject" -> Statuses
      [] op = "archive" -> Statuses

\* The statuses the handler's guard lets through.
LegalFrom(op) ==
    CASE op = "submitReview" -> {"DRAFT"}
      [] op = "approve" -> {"IN_REVIEW"}
      [] op = "publish" -> {"APPROVED", "DRAFT"}
      [] op = "reject" -> Statuses
      [] op = "archive" -> Statuses

TargetSkipsStage(op) ==
    CASE op = "submitReview" -> "APPROVED"
      [] op = "approve" -> "PUBLISHED"
      [] op = "publish" -> "PUBLISHED"
      [] op = "reject" -> "DRAFT"
      [] op = "archive" -> "ARCHIVED"

Target(op) ==
    CASE op = "submitReview" -> "IN_REVIEW"
      [] op = "approve" -> "APPROVED"
      [] op = "publish" -> "PUBLISHED"
      [] op = "reject" -> "DRAFT"
      [] op = "archive" -> "ARCHIVED"

AuditTagOfTarget(op) ==
    CASE op = "submitReview" -> "IN_REVIEW"
      [] op = "approve" -> "APPROVED"
      [] op = "publish" -> "PUBLISHED"
      [] op = "reject" -> "DRAFT"
      [] op = "archive" -> "ARCHIVED"

AuditTag(op) ==
    CASE op = "submitReview" -> "SUBMIT_REVIEW"
      [] op = "approve" -> "APPROVE"
      [] op = "publish" -> "PUBLISH"
      [] op = "reject" -> "REJECT"
      [] op = "archive" -> "ARCHIVE"

WorkflowStart(p, role, op, t) ==
    /\ Admit(p)
    /\ UNCHANGED <<chapters, topics, versions, audit>>
    /\ IF Gate(role, WorkflowRoles(op)) # "pass"
          THEN Begin(p, Rejected(op, t, Gate(role, WorkflowRoles(op)))) /\ now' = now
       ELSE IF t \notin DOMAIN topics
          THEN Begin(p, Rejected(op, t, "NOT_FOUND")) /\ now' = now
       ELSE IF topics[t].status \notin LegalFrom(op)
          THEN Begin(p, Rejected(op, t, "BAD_REQUEST")) /\ now' = now
       ELSE \E d \in IF op = "publish" THEN {0, 1} ELSE {0} :
            /\ now' = now + d
            /\ Begin(p, [Idle EXCEPT
                   !.op = op, !.t = t, !.pc = "update", !.res = "pending",
                   !.existing = topics[t],
                   !.data = IF op = "publish"
                               THEN ("status" :> Target(op)) @@ ("publishedAt" :> now')
                               ELSE "status" :> Target(op)])

WorkflowWrite(p) ==
    /\ req[p].op \in WorkflowOps /\ req[p].pc = "update"
    /\ UNCHANGED <<chapters, versions, audit, now, budget>>
    /\ IF req[p].t \notin DOMAIN topics
          THEN Finish(p, "INTERNAL") /\ topics' = topics
          ELSE /\ topics' = [topics EXCEPT ![req[p].t] = ApplyData(@, req[p].data)]
               /\ req' = [req EXCEPT ![p].writes = @ + 1, ![p].pc = "audit"]

WorkflowAudit(p) ==
    /\ req[p].op \in WorkflowOps /\ req[p].pc = "audit"
    /\ UNCHANGED <<chapters, topics, versions, now, budget>>
    /\ audit' = InsertAudit(AuditRow(AuditTag(req[p].op), req[p].t))
    /\ FinishWrite(p, "OK")

----------------------------------------------------------------------------
(* POST /chapters/:chapterId/topics/reorder *)

\* prisma.$transaction of one update per listed id: order = index.  A later
\* occurrence of an id overwrites an earlier one.
ReorderedFromOne(ids) ==
    [x \in DOMAIN topics |->
        IF \E i \in 1..Len(ids) : ids[i] = x
           THEN [topics[x] EXCEPT !.order = Max({i \in 1..Len(ids) : ids[i] = x})]
           ELSE topics[x]]

Reordered(ids) ==
    [x \in DOMAIN topics |->
        IF \E i \in 1..Len(ids) : ids[i] = x
           THEN [topics[x] EXCEPT !.order = Max({i \in 1..Len(ids) : ids[i] = x}) - 1]
           ELSE topics[x]]

ReorderTopics(p, role, chapterId, ids) ==
    /\ Admit(p)
    /\ UNCHANGED <<chapters, versions, audit, now>>
    /\ IF Gate(role, ContributorUp) # "pass"
          THEN Begin(p, Rejected("reorderTopics", chapterId, Gate(role, ContributorUp)))
               /\ topics' = topics
       ELSE IF \E i \in 1..Len(ids) : ids[i] \notin DOMAIN topics
          THEN Begin(p, [Rejected("reorderTopics", chapterId, "INTERNAL") EXCEPT
                            !.data = "ids" :> ids])
               /\ topics' = topics
       ELSE /\ topics' = Reordered(ids)
            /\ Begin(p, [Rejected("reorderTopics", chapterId, "OK") EXCEPT
                            !.writes = 1, !.data = "ids" :> ids])

----------------------------------------------------------------------------
(* POST /chapters *)

\* the subjects that exist (prisma.subject.findUnique); none is created or
\* deleted by these routes
Subjects == {"s1", "s2"}

ChapterIds == <<"c2", "c3", "c4", "c5">>

TopicIds == <<"t2", "t3", "t4", "t5">>

\* the id the store gives a new row (uuid): one never used before
FreshId(pool, used) ==
    pool[CHOOSE i \in 1..Len(pool) :
            pool[i] \notin used /\ \A j \in 1..(i - 1) : pool[j] \in used]

IdsInUse == {audit[i].entityId : i \in 1..Len(audit)} \cup DOMAIN chapters \cup DOMAIN topics
               \cup {req[p].data.id : p \in {q \in Procs : Has(req[q].data, "id")}}

ChaptersOf(subjectId) == {c \in DOMAIN chapters : chapters[c].subjectId = subjectId}

TopicsOf(chapterId) == {t \in DOMAIN topics : topics[t].chapterId = chapterId}

\* maxOrder?.order ?? -1, for the orders of the rows findFirst looks at
MaxOrder(orders) == IF orders = {} THEN -1 ELSE Max(orders)

\* order = (maxOrder?.order ?? -1) + 1
NextOrder(maxOrder) == maxOrder + 1

\* the compound unique key subjectId_slug
ChapterSlugTaken(subjectId, slug) ==
    \E c \in ChaptersOf(subjectId) : chapters[c].slug = slug

\* the compound unique key chapterId_slug
TopicSlugTaken(chapterId, slug) ==
    \E t \in TopicsOf(chapterId) : topics[t].slug = slug

ChapterAuditRow(action, c) == [action |-> action, entityType |-> "Chapter", entityId |-> c]

\* order is the optional field of the body: NoData when it is left out
CreateChapterStart(p, role, subjectId, slug, order) ==
    /\ Admit(p)
    /\ UNCHANGED <<chapters, topics, versions, audit, now>>
    /\ IF Gate(role, ContributorUp) # "pass"
          THEN Begin(p, Rejected("createChapter", subjectId, Gate(role, ContributorUp)))
       ELSE IF subjectId \notin Subjects
          THEN Begin(p, Rejected("createChapter", subjectId, "BAD_REQUEST"))
       ELSE Begin(p, [Idle EXCEPT
                !.op = "createChapter", !.t = subjectId, !.res = "pending",
                !.pc = IF Has(order, "order") THEN "create" ELSE "maxOrder",
                !.data = ("slug" :> slug) @@ order])

CreateChapterMaxOrder(p) ==
    /\ req[p].op = "createChapter" /\ req[p].pc = "maxOrder"
    /\ UNCHANGED <<chapters, topics, versions, audit, now, budget>>
    /\ req' = [req EXCEPT
           ![p].pc = "create",
           ![p].data =
               LET maxOrder == MaxOrder({chapters[c].order : c \in ChaptersOf(req[p].t)})
               IN  @ @@ ("maxOrder" :> maxOrder) @@ ("order" :> NextOrder(maxOrder))]

CreateChapterWrite(p) ==
    /\ req[p].op = "createChapter" /\ req[p].pc = "create"
    /\ UNCHANGED <<topics, versions, audit, now, budget>>
    /\ IF ChapterSlugTaken(req[p].t, req[p].data.slug)
          THEN Finish(p, "INTERNAL") /\ chapters' = chapters
          ELSE LET id == FreshId(ChapterIds, IdsInUse) IN
               /\ chapters' = (id :> NewChapter(req[p].t, req[p].data.slug, req[p].data.order))
                                 @@ chapters
               /\ req' = [req EXCEPT ![p].writes = @ + 1, ![p].pc = "audit",
                                     ![p].data = @ @@ ("id" :> id)]

CreateChapterAudit(p) ==
    /\ req[p].op = "createChapter" /\ req[p].pc = "audit"
    /\ UNCHANGED <<chapters, topics, versions, now, budget>>
    /\ audit' = InsertAudit(ChapterAuditRow("CREATE", req[p].data.id))
    /\ FinishWrite(p, "OK")

----------------------------------------------------------------------------
(* POST /topics *)

CreateTopicStart(p, role, chapterId, slug, content, order) ==
    /\ Admit(p)
    /\ UNCHANGED <<chapters, topics, versions, audit, now>>
    /\ IF Gate(role, ContributorUp) # "pass"
          THEN Begin(p, Rejected("createTopic", chapterId, Gate(role, ContributorUp)))
       ELSE IF chapterId \notin DOMAIN chapters
          THEN Begin(p, Rejected("createTopic", chapterId, "BAD_REQUEST"))
       ELSE Begin(p, [Idle EXCEPT
                !.op = "createTopic", !.t = chapterId, !.res = "pending",
                !.pc = IF Has(order, "order") THEN "create" ELSE "maxOrder",
                !.data = ("slug" :> slug) @@ ("content" :> content) @@ order])

CreateTopicMaxOrder(p) ==
    /\ req[p].op = "createTopic" /\ req[p].pc = "maxOrder"
    /\ UNCHANGED <<chapters, topics, versions, audit, now, budget>>
    /\ req' = [req EXCEPT
           ![p].pc = "create",
           ![p].data =
               LET maxOrder == MaxOrder({topics[t].order : t \in TopicsOf(req[p].t)})
               IN  @ @@ ("maxOrder" :> maxOrder) @@ ("order" :> NextOrder(maxOrder))]

CreateTopicWrite(p) ==
    /\ req[p].op = "createTopic" /\ req[p].pc = "create"
    /\ UNCHANGED <<chapters, versions, audit, now, budget>>
    /\ IF req[p].t \notin DOMAIN chapters \/ TopicSlugTaken(req[p].t, req[p].data.slug)
          THEN Finish(p, "INTERNAL") /\ topics' = topics
          ELSE LET id == FreshId(TopicIds, IdsInUse) IN
               /\ topics' = (id :> [NewTopic(req[p].data.content, req[p].data.order) EXCEPT
                                       !.chapterId = req[p].t, !.slug = req[p].data.slug])
                               @@ topics
               /\ req' = [req EXCEPT ![p].writes = @ + 1, ![p].pc = "version",
                                     ![p].data = @ @@ ("id" :> id)]

CreateTopicVersion(p) ==
    /\ req[p].op = "createTopic" /\ req[p].pc = "version"
    /\ UNCHANGED <<chapters, topics, audit, now, budget>>
    /\ IF CanCreateVersion(req[p].data.id, 1)
          THEN /\ versions' = InsertVersion(
                      VersionRow(req[p].data.id, 1, req[p].data.content, "Initial version"))
               /\ req' = [req EXCEPT ![p].writes = @ + 1, ![p].pc = "audit"]
          ELSE Finish(p, "INTERNAL") /\ versions' = versions

CreateTopicAudit(p) ==
    /\ req[p].op = "createTopic" /\ req[p].pc = "audit"
    /\ UNCHANGED <<chapters, topics, versions, now, budget>>
    /\ audit' = InsertAudit(AuditRow("CREATE", req[p].data.id))
    /\ FinishWrite(p, "OK")

----------------------------------------------------------------------------
(* PATCH /chapters/:id, DELETE /chapters/:id, POST /subjects/:subjectId/chapters/reorder *)

UpdateChapterStart(p, role, c, data) ==
    /\ Admit(p)
    /\ UNCHANGED <<chapters, topics, versions, audit, now>>
    /\ IF Gate(role, ContributorUp) # "pass"
          THEN Begin(p, Rejected("updateChapter", c, Gate(role, ContributorUp)))
       ELSE IF c \notin DOMAIN chapters
          THEN Begin(p, Rejected("updateChapter", c, "NOT_FOUND"))
       ELSE Begin(p, [Idle EXCEPT
                !.op = "updateChapter", !.t = c, !.pc = "update", !.res = "pending",
                !.data = data, !.existing = chapters[c]])

UpdateChapterWrite(p) ==
    /\ req[p].op = "updateChapter" /\ req[p].pc = "update"
    /\ UNCHANGED <<topics, versions, audit, now, budget>>
    /\ IF \/ req[p].t \notin DOMAIN chapters
          \/ /\ Has(req[p].data, "slug")
             /\ \E c \in ChaptersOf(chapters[req[p].t].subjectId) \ {req[p].t} :
                    chapters[c].slug = req[p].data.slug
          THEN Finish(p, "INTERNAL") /\ chapters' = chapters
          ELSE /\ chapters' = [chapters EXCEPT ![req[p].t] = ApplyData(@, req[p].data)]
               /\ req' = [req EXCEPT ![p].writes = @ + 1, ![p].pc = "audit"]

UpdateChapterAudit(p) ==
    /\ req[p].op = "updateChapter" /\ req[p].pc = "audit"
    /\ UNCHANGED <<chapters, topics, versions, now, budget>>
    /\ audit' = InsertAudit(ChapterAuditRow("UPDATE", req[p].t))
    /\ FinishWrite(p, "OK")

\* prisma.chapter.delete: the chapter's topics and their versions go with it
\* (cascade).
DeleteChapterRow(c) ==
    /\ chapters' = [x \in DOMAIN chapters \ {c} |-> chapters[x]]
    /\ topics' = [x \in DOMAIN topics \ TopicsOf(c) |-> topics[x]]
    /\ versions' = {r \in versions : r.topicId \notin TopicsOf(c)}

DeleteChapterStart(p, role, c) ==
    /\ Admit(p)
    /\ UNCHANGED <<chapters, topics, versions, audit, now>>
    /\ IF Gate(role, ManagerUp) # "pass"
          THEN Begin(p, Rejected("deleteChapter", c, Gate(role, ManagerUp)))
       ELSE IF c \notin DOMAIN chapters
          THEN Begin(p, Rejected("deleteChapter", c, "NOT_FOUND"))
       ELSE Begin(p, [Idle EXCEPT
                !.op = "deleteChapter", !.t = c, !.pc = "delete", !.res = "pending"])

DeleteChapterWrite(p) ==
    /\ req[p].op = "deleteChapter" /\ req[p].pc = "delete"
    /\ UNCHANGED <<audit, now, budget>>
    /\ IF req[p].t \notin DOMAIN chapters
          THEN Finish(p, "INTERNAL") /\ UNCHANGED <<chapters, topics, versions>>
          ELSE /\ DeleteChapterRow(req[p].t)
               /\ req' = [req EXCEPT ![p].writes = @ + 1, ![p].pc = "audit"]

DeleteChapterAudit(p) ==
    /\ req[p].op = "deleteChapter" /\ req[p].pc = "audit"
    /\ UNCHANGED <<chapters, topics, versions, now, budget>>
    /\ audit' = InsertAudit(ChapterAuditRow("DELETE", req[p].t))
    /\ FinishWrite(p, "OK")

\* prisma.$transaction of one update per listed id: order = index
ReorderedChaptersFromOne(ids) ==
    [x \in DOMAIN chapters |->
        IF \E i \in 1..Len(ids) : ids[i] = x
           THEN [chapters[x] EXCEPT !.order = Max({i \in 1..Len(ids) : ids[i] = x})]
           ELSE chapters[x]]

ReorderedChapters(ids) ==
    [x \in DOMAIN chapters |->
        IF \E i \in 1..Len(ids) : ids[i] = x
           THEN [chapters[x] EXCEPT !.order = Max({i \in 1..Len(ids) : ids[i] = x}) - 1]
           ELSE chapters[x]]

ReorderChapters(p, role, subjectId, ids) ==
    /\ Admit(p)
    /\ UNCHANGED <<topics, versions, audit, now>>
    /\ IF Gate(role, ContributorUp) # "pass"
          THEN Begin(p, Rejected("reorderChapters", subjectId, Gate(role, ContributorUp)))
               /\ chapters' = chapters
       ELSE IF \E i \in 1..Len(ids) : ids[i] \notin DOMAIN chapters
          THEN Begin(p, [Rejected("reorderChapters", subjectId, "INTERNAL") EXCEPT
                            !.data = "ids" :> ids])
               /\ chapters' = chapters
       ELSE /\ chapters' = ReorderedChapters(ids)
            /\ Begin(p, [Rejected("reorderChapters", subjectId, "OK") EXCEPT
                            !.writes = 1, !.data = "ids" :> ids])

----------------------------------------------------------------------------
(* The read routes: content.ts (optionalAuth) and the public hierarchy routes *)

\* req.user && ['SUPER_ADMIN', 'ADMIN', 'MANAGER', 'CONTRIBUTOR'].includes(req.user.role)
IsAdmin(role) == role \in ContributorUp

\* where: isAdmin ? {} : { isVisible: true, status: 'PUBLISHED' }
Shown(row, isAdmin) == isAdmin \/ (row.isVisible /\ row.status = "PUBLISHED")

ShownTopicsOf(c, isAdmin) == {t \in TopicsOf(c) : Shown(topics[t], isAdmin)}

\* the rows a response carries, by id
Response(cs, ts) == [chapters |-> cs, topics |-> ts]

Answer(p, role, op, id, res, body) ==
    /\ Admit(p)
    /\ UNCHANGED <<chapters, topics, versions, audit, now>>
    /\ Begin(p, [Rejected(op, id, res) EXCEPT !.data = body, !.caller = role])

\* the orders in which the rows of S can be listed
Perms(S) == {f \in [1..Cardinality(S) -> S] : \A i, j \in DOMAIN f : i # j => f[i] # f[j]}

SortedByOrderDesc(S) ==
    {f \in Perms(S) : \A i, j \in DOMAIN f : i < j => topics[f[i]].order >= topics[f[j]].order}

\* orderBy: { order: 'asc' } over the topics S; rows of equal order come in
\* any order
SortedByOrder(S) ==
    {f \in Perms(S) : \A i, j \in DOMAIN f : i < j => topics[f[i]].order <= topics[f[j]].order}

\* the topic lists the chapters cs can come with: per chapter its shown
\* topics by ascending order
Listings(cs, isAdmin) ==
    {l \in [cs -> UNION {SortedByOrder(ShownTopicsOf(c, isAdmin)) : c \in cs}] :
        \A c \in cs : l[c] \in SortedByOrder(ShownTopicsOf(c, isAdmin))}

\* GET /subjects/:subjectId/chapters
ListChapters(p, role, subjectId) ==
    LET cs == {c \in ChaptersOf(subjectId) : Shown(chapters[c], IsAdmin(role))}
    IN  \E l \in Listings(cs, IsAdmin(role)) :
            Answer(p, role, "listChapters", subjectId, "OK",
                   Response(cs, UNION {ShownTopicsOf(c, IsAdmin(role)) : c \in cs})
                      @@ ("listing" :> l))

\* GET /chapters/:id
GetChapter(p, role, c) ==
    IF c \notin DOMAIN chapters
       THEN Answer(p, role, "getChapter", c, "NOT_FOUND", Response({}, {}))
    ELSE IF ~IsAdmin(role) /\ (~chapters[c].isVisible \/ chapters[c].status # "PUBLISHED")
       THEN Answer(p, role, "getChapter", c, "NOT_FOUND", Response({}, {}))
    ELSE Answer(p, role, "getChapter", c, "OK", Response({c}, ShownTopicsOf(c, IsAdmin(role))))

\* GET /topics/:id of content.ts: the topic, its chapter and the chapter's
\* topics for navigation
GetTopic(p, role, t) ==
    IF t \notin DOMAIN topics
       THEN Answer(p, role, "getTopic", t, "NOT_FOUND", Response({}, {}))
    ELSE IF ~IsAdmin(role) /\ (~topics[t].isVisible \/ topics[t].status # "PUBLISHED")
       THEN Answer(p, role, "getTopic", t, "NOT_FOUND", Response({}, {}))
    ELSE Answer(p, role, "getTopic", t, "OK",
                Response({topics[t].chapterId},
                         {t} \cup ShownTopicsOf(topics[t].chapterId, IsAdmin(role))))

\* GET /subjects/:subjectId of the hierarchy routes: no authentication;
\* chapters where isVisible, topics where isVisible and PUBLISHED
PublicGetSubject(p, role, subjectId) ==
    IF subjectId \notin Subjects
       THEN Answer(p, role, "publicGetSubject", subjectId, "NOT_FOUND", Response({}, {}))
    ELSE LET cs == {c \in ChaptersOf(subjectId) : chapters[c].isVisible}
         IN  Answer(p, role, "publicGetSubject", subjectId, "OK",
                    Response(cs, UNION {ShownTopicsOf(c, FALSE) : c \in cs}))

\* GET /topics/:topicId of the hierarchy routes: no authentication;
\* if (topic.status !== 'PUBLISHED' && !topic.isVisible) throw notFound
PublicGetTopic(p, role, t) ==
    IF t \notin DOMAIN topics
       THEN Answer(p, role, "publicGetTopic", t, "NOT_FOUND", Response({}, {}))
    ELSE IF topics[t].status # "PUBLISHED" /\ ~topics[t].isVisible
       THEN Answer(p, role, "publicGetTopic", t, "NOT_FOUND", Response({}, {}))
    ELSE Answer(p, role, "publicGetTopic", t, "OK", Response({topics[t].chapterId}, {t}))

----------------------------------------------------------------------------
(* Initial states: a chapter with one topic, as POST /chapters and POST /topics
   leave them *)

InitStore(c) ==
    /\ chapters = ("c1" :> NewChapter("s1", "arrays", 0))
    /\ topics = ("t1" :> NewTopic(c, 0))
    /\ versions = {VersionRow("t1", 1, c, "Initial version")}
    /\ audit = <<AuditRow("CREATE", "t1")>>
    /\ req = [p \in Procs |-> Idle]
    /\ now = 1

Init == InitStore("a") /\ budget = MaxReqs

InitSeq == InitStore("a") /\ budget = MaxSeqReqs

----------------------------------------------------------------------------
(* Inputs *)

UpdateInputs == {Field("content", c) @@ Field("status", s) :
                    c \in Contents \cup {Absent}, s \in {Absent, "PUBLISHED"}}

StatusInputs == {Field("content", c) @@ Field("status", s) :
                    c \in {Absent, "", "b"}, s \in Statuses \cup {Absent}}

SeqCallers == {"MANAGER", "CONTRIBUTOR", Anonymous}

VersionParams == {"1", "2", "02", "3", "4"}

IdLists == {<<"t1">>, <<"t1", "t1">>, <<"t2", "t1">>}

----------------------------------------------------------------------------
(* Concurrent connections changing the content of one topic *)

Next ==
    \/ \E p \in Procs, role \in Callers, d \in UpdateInputs, cl \in {Absent, "edit"} :
          UpdateTopicStart(p, role, "t1", d, cl)
    \/ \E p \in Procs : UpdateTopicWrite(p)
    \/ \E p \in Procs : UpdateTopicVersion(p)
    \/ \E p \in Procs : UpdateTopicAudit(p)
    \/ \E p \in Procs, role \in Callers, v \in VersionParams : RestoreStart(p, role, "t1", v)
    \/ \E p \in Procs : RestoreLatest(p)
    \/ \E p \in Procs : RestoreWrite(p)
    \/ \E p \in Procs : RestoreVersion(p)
    \/ \E p \in Procs : RestoreAudit(p)
    \/ \E p \in Procs, role \in Callers : DeleteTopicStart(p, role, "t1")
    \/ \E p \in Procs : DeleteTopicWrite(p)
    \/ \E p \in Procs : DeleteTopicAudit(p)

Spec == Init /\ [][Next]_vars

----------------------------------------------------------------------------
(* One connection: requests run one after the other *)

SeqStart(roles) ==
    \/ \E role \in roles, d \in StatusInputs : UpdateTopicStart(1, role, "t1", d, Absent)
    \/ \E role \in roles, v \in {"1", "2"} : RestoreStart(1, role, "t1", v)
    \/ \E role \in roles : DeleteTopicStart(1, role, "t1")
    \/ \E role \in roles, op \in WorkflowOps : WorkflowStart(1, role, op, "t1")
    \/ \E role \in roles, ids \in IdLists : ReorderTopics(1, role, "c1", ids)

NextSeq ==
    \/ SeqStart(SeqCallers)
    \/ UpdateTopicWrite(1)
    \/ UpdateTopicVersion(1)
    \/ UpdateTopicAudit(1)
    \/ RestoreLatest(1)
    \/ RestoreWrite(1)
    \/ RestoreVersion(1)
    \/ RestoreAudit(1)
    \/ DeleteTopicWrite(1)
    \/ DeleteTopicAudit(1)
    \/ WorkflowWrite(1)
    \/ WorkflowAudit(1)

SpecSeq == InitSeq /\ [][NextSeq]_vars

----------------------------------------------------------------------------
(* One connection whose caller always has the role CONTRIBUTOR *)

NextContributor ==
    \/ SeqStart({"CONTRIBUTOR"})
    \/ UpdateTopicWrite(1)
    \/ UpdateTopicVersion(1)
    \/ UpdateTopicAudit(1)
    \/ WorkflowWrite(1)
    \/ WorkflowAudit(1)

SpecContributor == InitSeq /\ [][NextContributor]_vars

----------------------------------------------------------------------------
(* Concurrent connections creating chapters and topics *)

CreateCallers == {"CONTRIBUTOR", "STUDENT", Anonymous}

\* "s9" is the id of no subject, "c9" the id of no chapter
SubjectParams == {"s1", "s2", "s9"}

ChapterParams == {"c1", "c2", "c9"}

ChapterSlugs == {"arrays", "trees"}

TopicSlugs == {"intro", "sorting"}

\* the optional order of the body: left out, or 0
OrderInputs == {NoData, "order" :> 0}

NextCreate ==
    \/ \E p \in Procs, role \in CreateCallers, s \in SubjectParams, slug \in ChapterSlugs,
          order \in OrderInputs : CreateChapterStart(p, role, s, slug, order)
    \/ \E p \in Procs : CreateChapterMaxOrder(p)
    \/ \E p \in Procs : CreateChapterWrite(p)
    \/ \E p \in Procs : CreateChapterAudit(p)
    \/ \E p \in Procs, role \in CreateCallers, c \in ChapterParams, slug \in TopicSlugs,
          order \in OrderInputs : CreateTopicStart(p, role, c, slug, "a", order)
    \/ \E p \in Procs : CreateTopicMaxOrder(p)
    \/ \E p \in Procs : CreateTopicWrite(p)
    \/ \E p \in Procs : CreateTopicVersion(p)
    \/ \E p \in Procs : CreateTopicAudit(p)

SpecCreate == Init /\ [][NextCreate]_vars

----------------------------------------------------------------------------
(* Concurrent connections publishing one topic *)

NextPublish ==
    \/ \E p \in Procs, op \in {"publish", "reject"} : WorkflowStart(p, "MANAGER", op, "t1")
    \/ \E p \in Procs : WorkflowWrite(p)
    \/ \E p \in Procs : WorkflowAudit(p)
    \/ \E p \in Procs, s \in {"PUBLISHED", "DRAFT"} :
          UpdateTopicStart(p, "CONTRIBUTOR", "t1", "status" :> s, Absent)
    \/ \E p \in Procs : UpdateTopicWrite(p)
    \/ \E p \in Procs : UpdateTopicAudit(p)

SpecPublish == Init /\ [][NextPublish]_vars

InitRepublish == InitStore("a") /\ budget = MaxPublishReqs

SpecRepublish == InitRepublish /\ [][NextPublish]_vars

----------------------------------------------------------------------------
(* One connection: edits of the chapter and its topic, and reads *)

VisibilityInputs ==
    {s @@ v : s \in {NoData, "status" :> "PUBLISHED"},
              v \in {NoData, "isVisible" :> FALSE}}

ReadCallers == {"CONTRIBUTOR", "STUDENT", Anonymous}

ChapterIdLists == {<<"c1">>, <<"c1", "c1">>, <<"c9">>}

NextRead ==
    \/ \E d \in VisibilityInputs : UpdateTopicStart(1, "CONTRIBUTOR", "t1", d, Absent)
    \/ UpdateTopicWrite(1)
    \/ UpdateTopicAudit(1)
    \/ \E role \in ReadCallers, c \in {"c1", "c9"}, d \in VisibilityInputs :
          UpdateChapterStart(1, role, c, d)
    \/ UpdateChapterWrite(1)
    \/ UpdateChapterAudit(1)
    \/ \E role \in {"MANAGER", "CONTRIBUTOR"} : DeleteChapterStart(1, role, "c1")
    \/ DeleteChapterWrite(1)
    \/ DeleteChapterAudit(1)
    \/ \E role \in ReadCallers, ids \in ChapterIdLists : ReorderChapters(1, role, "s1", ids)
    \/ \E role \in ReadCallers, s \in {"s1", "s2"} : ListChapters(1, role, s)
    \/ \E role \in ReadCallers, c \in {"c1", "c9"} : GetChapter(1, role, c)
    \/ \E role \in ReadCallers : GetTopic(1, role, "t1")
    \/ \E role \in ReadCallers, s \in SubjectParams : PublicGetSubject(1, role, s)
    \/ \E role \in ReadCallers : PublicGetTopic(1, role, "t1")

SpecRead == InitSeq /\ [][NextRead]_vars

----------------------------------------------------------------------------
(* One connection: creating, reordering and listing chapters and topics *)

ReorderCallers == {"MANAGER", "STUDENT"}

\* "t9" is the id of no topic
TopicIdLists ==
    {<<"t1">>, <<"t1", "t2">>, <<"t2", "t1">>, <<"t1", "t1">>, <<"t1", "t9">>}

ChapterIdListsOfTwo ==
    {<<"c1">>, <<"c2", "c1">>, <<"c1", "c1">>, <<"c1", "c9">>}

NextReorder ==
    \/ CreateChapterStart(1, "MANAGER", "s2", "trees", "order" :> 0)
    \/ CreateChapterWrite(1)
    \/ CreateChapterAudit(1)
    \/ \E c \in {"c1", "c2"} : CreateTopicStart(1, "MANAGER", c, "sorting", "b", NoData)
    \/ CreateTopicMaxOrder(1)
    \/ CreateTopicWrite(1)
    \/ CreateTopicVersion(1)
    \/ CreateTopicAudit(1)
    \/ \E role \in ReorderCallers, c \in {"c1", "c2"}, ids \in TopicIdLists :
          ReorderTopics(1, role, c, ids)
    \/ \E role \in ReorderCallers, s \in {"s1", "s2"}, ids \in ChapterIdListsOfTwo :
          ReorderChapters(1, role, s, ids)
    \/ \E s \in {"s1", "s2"} : ListChapters(1, "MANAGER", s)

SpecReorder == InitSeq /\ [][NextReorder]_vars

----------------------------------------------------------------------------
(* Concurrent connections moving one topic through the workflow *)

NextWorkflow ==
    \/ \E p \in Procs, role \in {"MANAGER", "CONTRIBUTOR"}, op \in WorkflowOps :
          WorkflowStart(p, role, op, "t1")
    \/ \E p \in Procs : WorkflowWrite(p)
    \/ \E p \in Procs : WorkflowAudit(p)

SpecWorkflow == Init /\ [][NextWorkflow]_vars

----------------------------------------------------------------------------
(* One connection: every protected route, called with every kind of caller *)

GateCallers == {"MANAGER", "CONTRIBUTOR", "STUDENT", Anonymous}

ProtectedOps ==
    {"createChapter", "updateChapter", "deleteChapter", "reorderChapters", "createTopic",
     "updateTopic", "deleteTopic", "reorderTopics", "restoreVersion"} \cup WorkflowOps

\* a request to the route of op, sent by a caller of the given role
StartOf(op, role) ==
    \/ op = "createChapter" /\ CreateChapterStart(1, role, "s1", "trees", NoData)
    \/ op = "updateChapter" /\ UpdateChapterStart(1, role, "c1", "isVisible" :> FALSE)
    \/ op = "deleteChapter" /\ DeleteChapterStart(1, role, "c1")
    \/ op = "reorderChapters" /\ ReorderChapters(1, role, "s1", <<"c1">>)
    \/ op = "createTopic" /\ CreateTopicStart(1, role, "c1", "sorting", "a", NoData)
    \/ op = "updateTopic" /\ UpdateTopicStart(1, role, "t1", "content" :> "b", Absent)
    \/ op = "deleteTopic" /\ DeleteTopicStart(1, role, "t1")
    \/ op = "reorderTopics" /\ ReorderTopics(1, role, "c1", <<"t1">>)
    \/ op = "restoreVersion" /\ RestoreStart(1, role, "t1", "1")
    \/ op \in WorkflowOps /\ WorkflowStart(1, role, op, "t1")

NextGate ==
    \/ \E op \in ProtectedOps, role \in GateCallers : StartOf(op, role)
    \/ CreateChapterMaxOrder(1)
    \/ CreateChapterWrite(1)
    \/ CreateChapterAudit(1)
    \/ UpdateChapterWrite(1)
    \/ UpdateChapterAudit(1)
    \/ DeleteChapterWrite(1)
    \/ DeleteChapterAudit(1)
    \/ CreateTopicMaxOrder(1)
    \/ CreateTopicWrite(1)
    \/ CreateTopicVersion(1)
    \/ CreateTopicAudit(1)
    \/ UpdateTopicWrite(1)
    \/ UpdateTopicVersion(1)
    \/ UpdateTopicAudit(1)
    \/ DeleteTopicWrite(1)
    \/ DeleteTopicAudit(1)
    \/ RestoreLatest(1)
    \/ RestoreWrite(1)
    \/ RestoreVersion(1)
    \/ RestoreAudit(1)
    \/ WorkflowWrite(1)
    \/ WorkflowAudit(1)

SpecGate == InitSeq /\ [][NextGate]_vars

----------------------------------------------------------------------------
(* One connection: edits and reads by callers identified by their tokens *)

OptionalAuthOps == {"listChapters", "getChapter", "getTopic"}

\* a request to the optionally authenticated route of op, sent with token
ReadOf(op, token) ==
    \/ op = "listChapters" /\ ListChapters(1, OptionalAuth(token), "s1")
    \/ op = "getChapter" /\ GetChapter(1, OptionalAuth(token), "c1")
    \/ op = "getTopic" /\ GetTopic(1, OptionalAuth(token), "t1")

NextTokens ==
    \/ \E token \in Tokens, d \in VisibilityInputs :
          UpdateTopicStart(1, Authenticate(token), "t1", d, Absent)
    \/ UpdateTopicWrite(1)
    \/ UpdateTopicAudit(1)
    \/ \E token \in Tokens, d \in VisibilityInputs :
          UpdateChapterStart(1, Authenticate(token), "c1", d)
    \/ UpdateChapterWrite(1)
    \/ UpdateChapterAudit(1)
    \/ \E op \in OptionalAuthOps, token \in Tokens : ReadOf(op, token)

SpecTokens == InitSeq /\ [][NextTokens]_vars

----------------------------------------------------------------------------
(* One connection: the life of a topic, from the creation of its chapter *)

InitLife == InitStore("a") /\ budget = MaxLifeReqs

NextLife ==
    \/ CreateChapterStart(1, "MANAGER", "s2", "trees", "order" :> 0)
    \/ CreateChapterWrite(1)
    \/ CreateChapterAudit(1)
    \/ CreateTopicStart(1, "MANAGER", "c2", "sorting", "a", NoData)
    \/ CreateTopicMaxOrder(1)
    \/ CreateTopicWrite(1)
    \/ CreateTopicVersion(1)
    \/ CreateTopicAudit(1)
    \/ \E op \in WorkflowOps : WorkflowStart(1, "MANAGER", op, "t2")
    \/ WorkflowWrite(1)
    \/ WorkflowAudit(1)
    \/ UpdateTopicStart(1, "MANAGER", "t2", "content" :> "b", Absent)
    \/ UpdateTopicWrite(1)
    \/ UpdateTopicVersion(1)
    \/ UpdateTopicAudit(1)
    \/ RestoreStart(1, "MANAGER", "t2", "1")
    \/ RestoreLatest(1)
    \/ RestoreWrite(1)
    \/ RestoreVersion(1)
    \/ RestoreAudit(1)

SpecLife == InitLife /\ [][NextLife]_vars

----------------------------------------------------------------------------
(* Properties of the version ledger under concurrent connections (Spec) *)

ContentOps == {"updateTopic", "restoreVersion"}

C2_NoCollision ==
    /\ \A r1, r2 \in versions :
          (r1.topicId = r2.topicId /\ r1.version = r2.version) => r1 = r2
    /\ \A p \in Procs :
          (req[p].op \in ContentOps /\ req[p].pc = "done" /\ req[p].t \in DOMAIN topics)
             => req[p].res # "INTERNAL"

\* C8: no operation applies partially: a request on a topic (one that still
\* exists) that ended in an error has committed none of its writes to the
\* topic row, the version ledger or the audit log.
C8_AllOrNothing ==
    \A p \in Procs :
        (req[p].pc = "done" /\ req[p].res # "OK" /\ req[p].t \in DOMAIN topics)
            => req[p].writes = 0

\* the step of connection p, when this step is one of its request's
Steps(p) == req[p].pc \notin {"idle", "done"} /\ req'[p] # req[p]

ContentOfVersion(vs, t, n, c) ==
    \E r \in vs : r.topicId = t /\ r.version = n /\ r.content = c

IsHighest(vs, t, n) ==
    /\ \E r \in vs : r.topicId = t /\ r.version = n
    /\ \A r \in vs : r.topicId = t => r.version <= n

\* C9: a restoreVersion(t, v) that succeeds has set Topic.content to the
\* content of version v and appended exactly one row, numbered the previous
\* maximum + 1, with that content and the changelog "Restored from version v";
\* no step of it removes a row or lowers the topic's maximum version.
C9_Restore ==
    [][\A p \in Procs :
        (Steps(p) /\ req[p].op = "restoreVersion") =>
          LET r == req[p]
              n == ParseInt(r.version)
          IN  /\ (r.pc = "update" /\ req'[p].pc = "version") =>
                    ContentOfVersion(versions, r.t, n, topics'[r.t].content)
              /\ (r.pc = "version" /\ req'[p].pc = "audit") =>
                    \E row \in versions' \ versions :
                        /\ versions' = versions \cup {row}
                        /\ row.topicId = r.t
                        /\ IsHighest(versions, r.t, row.version - 1)
                        /\ ContentOfVersion(versions, r.t, n, row.content)
                        /\ row.changelog = "Restored from version " \o r.version
              /\ ~(r.pc = "version" /\ req'[p].pc = "audit") => versions' = versions
              /\ req'[p].res = "OK" => (r.pc = "audit" /\ req'[p].writes = 3)
      ]_vars

C9_Witness ==
    /\ \E p \in Procs : req[p].op = "restoreVersion" /\ req[p].res = "OK"
    /\ \E r \in versions : r.version = 3 /\ r.changelog = "Restored from version 02"

----------------------------------------------------------------------------
(* Properties of the workflow and of single requests (SpecSeq) *)

\* a request is admitted in this step and is carried by connection p
Admitted(p) == budget' # budget /\ FirstFree(p)

\* C3: when an updateTopic that changed Topic.content (to any value, the
\* empty string included) or a restoreVersion returns success, Topic.content
\* equals the content of the topic's highest-numbered version.
C3_ContentIsLatest ==
    [][\A p \in Procs :
        LET r == req[p] IN
        ( /\ Steps(p) /\ req'[p].res = "OK"
          /\ r.op \in ContentOps
          /\ r.op = "updateTopic" =>
                (Has(r.data, "content") /\ r.data.content # r.existing.content) )
        => \E n \in VersionNumbers(r.t) :
              /\ IsHighest(versions', r.t, n)
              /\ ContentOfVersion(versions', r.t, n, topics'[r.t].content)
      ]_vars

\* C4: by requests of CONTRIBUTOR callers alone a DRAFT topic never becomes
\* APPROVED or PUBLISHED.
C4_SeparationOfDuties ==
    \A t \in DOMAIN topics : topics[t].status \notin {"APPROVED", "PUBLISHED"}

GuardedOps == {"submitReview", "approve", "publish"}

C5_Sources(op) ==
    CASE op = "submitReview" -> {"DRAFT"}
      [] op = "approve" -> {"IN_REVIEW"}
      [] op = "publish" -> {"APPROVED", "DRAFT"}

C5_Result(op) ==
    CASE op = "submitReview" -> "IN_REVIEW"
      [] op = "approve" -> "APPROVED"
      [] op = "publish" -> "PUBLISHED"

Denied == {"UNAUTHORIZED", "FORBIDDEN"}

\* C5: submitForReview, approve and publish, called by an allowed caller on a
\* topic that exists, succeed exactly when the topic's status is in the
\* operation's source set (DRAFT; IN_REVIEW; APPROVED or DRAFT) and then set
\* the status to IN_REVIEW, APPROVED, PUBLISHED (publish also sets publishedAt
\* to the current time); otherwise they fail with the 400 response of an
\* invalid transition and leave the topic as it was.
C5_GuardedTransitions ==
    [][\A p \in Procs :
        LET r == req[p]
            r2 == req'[p]
        IN  /\ (Admitted(p) /\ r2.op \in GuardedOps /\ r2.t \in DOMAIN topics
                  /\ r2.res \notin Denied) =>
                  /\ topics' = topics
                  /\ IF topics[r2.t].status \in C5_Sources(r2.op)
                        THEN r2.res = "pending"
                        ELSE r2.res = "BAD_REQUEST" /\ r2.pc = "done"
            /\ (Steps(p) /\ r.op \in GuardedOps /\ r.pc = "update") =>
                  /\ r2.pc = "audit"
                  /\ topics'[r.t].status = C5_Result(r.op)
                  /\ topics'[r.t].publishedAt =
                        IF r.op = "publish" THEN now ELSE topics[r.t].publishedAt
            /\ (Steps(p) /\ r.op \in GuardedOps /\ r.pc = "audit") =>
                  r2.res = "OK" /\ topics' = topics
      ]_vars

C5_Witness ==
    /\ req[1].op = "publish" /\ req[1].res = "OK"
    /\ topics["t1"].status = "PUBLISHED" /\ topics["t1"].publishedAt = now
    /\ Len(audit) = 4

DiagramEdges ==
    {<<"DRAFT", "IN_REVIEW">>, <<"IN_REVIEW", "APPROVED">>, <<"APPROVED", "PUBLISHED">>,
     <<"DRAFT", "PUBLISHED">>, <<"IN_REVIEW", "DRAFT">>, <<"APPROVED", "ARCHIVED">>,
     <<"PUBLISHED", "ARCHIVED">>}

StatusChanged(t) == t \in DOMAIN topics' /\ topics'[t].status # topics[t].status

\* approve, admitted on connection p for a DRAFT topic, fails at once and
\* changes no topic
ApproveOnDraftFails(p) ==
    (Admitted(p) /\ req'[p].op = "approve" /\ req'[p].t \in DOMAIN topics
        /\ topics[req'[p].t].status = "DRAFT") =>
        (req'[p].pc = "done" /\ req'[p].res # "OK" /\ topics' = topics)

\* C6 as stated: every change of status made by a workflow call is one of the
\* edges drawn in the diagram, and approve on a DRAFT topic fails and leaves
\* the status unchanged.
C6_OnlyDiagramEdges ==
    [][\A p \in Procs :
        /\ (Steps(p) /\ req[p].op \in WorkflowOps /\ StatusChanged(req[p].t)) =>
              <<topics[req[p].t].status, topics'[req[p].t].status>> \in DiagramEdges
        /\ ApproveOnDraftFails(p)
      ]_vars

C6_Edges(op) ==
    CASE op = "submitReview" -> {<<"DRAFT", "IN_REVIEW">>}
      [] op = "approve" -> {<<"IN_REVIEW", "APPROVED">>}
      [] op = "publish" -> {<<"APPROVED", "PUBLISHED">>, <<"DRAFT", "PUBLISHED">>}
      [] op = "reject" -> {<<s, "DRAFT">> : s \in Statuses}
      [] op = "archive" -> {<<s, "ARCHIVED">> : s \in Statuses}

\* C6 as amended: every change of status made by a workflow call is an edge of
\* the diagram, a reject (from any status to DRAFT) or an archive (from any
\* status to ARCHIVED); approve on a DRAFT topic fails and leaves the status
\* unchanged.
C6_WorkflowEdges ==
    [][\A p \in Procs :
        /\ (Steps(p) /\ req[p].op \in WorkflowOps /\ StatusChanged(req[p].t)) =>
              <<topics[req[p].t].status, topics'[req[p].t].status>> \in C6_Edges(req[p].op)
        /\ ApproveOnDraftFails(p)
      ]_vars

\* a reject has sent an APPROVED topic back to DRAFT
C6_Witness ==
    /\ req[1].op = "reject" /\ req[1].pc = "audit"
    /\ req[1].existing.status = "APPROVED"
    /\ topics["t1"].status = "DRAFT"

\* C7: once a topic is ARCHIVED no operation changes its status.
C7_ArchivedIsTerminal ==
    [][\A t \in DOMAIN topics :
        (topics[t].status = "ARCHIVED" /\ t \in DOMAIN topics') =>
            topics'[t].status = "ARCHIVED"
      ]_vars

\* C10: while a topic exists, every one of its version rows stays in the
\* ledger with the same number, content and changelog.
C10_AppendOnly ==
    [][\A t \in DOMAIN topics :
        t \in DOMAIN topics' =>
            {r \in versions : r.topicId = t} \subseteq {r \in versions' : r.topicId = t}
      ]_vars

\* two rows were appended to the initial one and a workflow call followed
C10_Witness ==
    /\ Cardinality(VersionsOf("t1")) = 3
    /\ req[1].op \in WorkflowOps /\ req[1].res = "OK"

----------------------------------------------------------------------------
(* Properties of updateTopic and of the audit log (SpecSeq) *)

\* C11: an updateTopic that succeeds has appended a version row (numbered the
\* previous maximum + 1, with the new content and the supplied changelog or
\* "Content updated") if and only if the body supplied content, of any value,
\* the empty string included, that differs from the stored Topic.content;
\* otherwise it has appended nothing.
C11_VersionIffChanged ==
    [][\A p \in Procs :
        LET r == req[p] IN
        (Steps(p) /\ r.op = "updateTopic" /\ req'[p].res = "OK") =>
            IF Has(r.data, "content") /\ r.data.content # r.existing.content
               THEN /\ IsHighest(versions, r.t, r.latest + 1)
                    /\ \E row \in versions :
                          /\ row.topicId = r.t /\ row.version = r.latest + 1
                          /\ row.content = r.data.content
                          /\ row.changelog =
                                IF r.changelog = Absent THEN "Content updated" ELSE r.changelog
               ELSE IsHighest(versions, r.t, r.latest)
      ]_vars

\* the action name the log carries for a workflow call
ExpectedTag(op) ==
    CASE op = "submitReview" -> "SUBMIT_REVIEW"
      [] op = "approve" -> "APPROVE"
      [] op = "publish" -> "PUBLISH"
      [] op = "reject" -> "REJECT"
      [] op = "archive" -> "ARCHIVE"

\* the log has exactly one new entry, tagged with the workflow call op on t
OneEntryMore(op, t) ==
    audit' = Append(audit, [action |-> ExpectedTag(op), entityType |-> "Topic", entityId |-> t])

\* a workflow call is admitted on connection p and answered in the same step
AnsweredAtOnce(p) == Admitted(p) /\ req'[p].op \in WorkflowOps /\ req'[p].pc = "done"

\* C12: every call of submitForReview, approve, publish, reject or archive,
\* whether it succeeds or fails, appends exactly one audit entry tagged with
\* its action: the step that answers the call appends the entry, and no
\* other step of the call appends one.
C12_AuditOnEveryCall ==
    [][\A p \in Procs :
        /\ AnsweredAtOnce(p) => OneEntryMore(req'[p].op, req'[p].t)
        /\ (Steps(p) /\ req[p].op \in WorkflowOps) =>
              IF req'[p].pc = "done" THEN OneEntryMore(req[p].op, req[p].t)
                                     ELSE audit' = audit
      ]_vars

\* C13: a workflow call that fails (not authenticated, Forbidden, NotFound,
\* InvalidTransition) appends no audit entry; one that succeeds appends
\* exactly one, in its last step, tagged with its action and naming the topic.
C13_AuditOnlyOnSuccess ==
    [][\A p \in Procs :
        /\ AnsweredAtOnce(p) =>
              /\ req'[p].res \in {"UNAUTHORIZED", "FORBIDDEN", "NOT_FOUND", "BAD_REQUEST"}
              /\ audit' = audit
        /\ (Admitted(p) /\ req'[p].op \in WorkflowOps /\ req'[p].pc # "done") => audit' = audit
        /\ (Steps(p) /\ req[p].op \in WorkflowOps) =>
              IF req'[p].res = "OK" THEN OneEntryMore(req[p].op, req[p].t)
                                    ELSE audit' = audit
      ]_vars

\* a publish was logged, and the approve that followed failed and was not
C13_Witness ==
    /\ req[1].op = "approve" /\ req[1].res = "BAD_REQUEST"
    /\ Len(audit) = 2 /\ audit[2].action = "PUBLISH" /\ audit[2].entityId = "t1"
    /\ topics["t1"].status = "PUBLISHED"

MutationTag(op) ==
    CASE op \in {"createChapter", "createTopic"} -> "CREATE"
      [] op \in {"updateChapter", "updateTopic", "reorderChapters", "reorderTopics"} -> "UPDATE"
      [] op \in {"deleteChapter", "deleteTopic"} -> "DELETE"
      [] op = "restoreVersion" -> "RESTORE"

ContentMutations ==
    {"createChapter", "updateChapter", "deleteChapter", "reorderChapters",
     "createTopic", "updateTopic", "deleteTopic", "reorderTopics", "restoreVersion"}

\* connection p answers a request in this step
Answers(p) == req'[p].pc = "done" /\ (Steps(p) \/ Admitted(p))

\* C14: every content mutation that succeeds and changes the stored state
\* appends exactly one audit entry, tagged CREATE, UPDATE, DELETE or RESTORE
\* as appropriate: the step that answers it appends the entry and no earlier
\* step of it appends one.
C14_AuditOnEveryMutation ==
    [][\A p \in Procs :
        /\ ( /\ Answers(p) /\ req'[p].res = "OK" /\ req'[p].op \in ContentMutations
             /\ Admitted(p) => (topics' # topics \/ chapters' # chapters) ) =>
              /\ Len(audit') = Len(audit) + 1
              /\ audit'[Len(audit')].action = MutationTag(req'[p].op)
        /\ (Steps(p) /\ req[p].op \in ContentMutations /\ req'[p].pc # "done") =>
              audit' = audit
      ]_vars

\* C15: the audit log only grows at its end: after every step the log before
\* the step is a prefix of the log, also when the step deletes the entity
\* that entries refer to.
C15_AuditAppendOnly ==
    [][/\ Len(audit') >= Len(audit)
       /\ SubSeq(audit', 1, Len(audit)) = audit
      ]_vars

\* the topic is deleted and the entries that name it are still in the log
C15_Witness ==
    /\ "t1" \notin DOMAIN topics
    /\ req[1].op = "deleteTopic" /\ req[1].res = "OK"
    /\ Len(audit) = 3
    /\ audit[1].action = "CREATE" /\ audit[1].entityId = "t1"
    /\ audit[3].action = "DELETE" /\ audit[3].entityId = "t1"

----------------------------------------------------------------------------
(* Properties of the read routes (SpecRead) *)

ReadOps == {"listChapters", "getChapter", "getTopic", "publicGetSubject", "publicGetTopic"}

Published(row) == row.status = "PUBLISHED" /\ row.isVisible

\* C16: a caller who is anonymous or has none of the roles SUPER_ADMIN, ADMIN,
\* MANAGER, CONTRIBUTOR is returned, by every read route, only topics and
\* chapters that are PUBLISHED and visible; a caller with one of those roles
\* is returned the topic asked for whatever its status.
C16_ReadersSeePublishedOnly ==
    [][\A p \in Procs :
        LET r == req'[p] IN
        /\ (Admitted(p) /\ r.op \in ReadOps /\ r.res = "OK" /\ r.caller \notin ContributorUp) =>
              /\ \A t \in r.data.topics : Published(topics[t])
              /\ \A c \in r.data.chapters : Published(chapters[c])
        /\ ( /\ Admitted(p) /\ r.op \in {"getTopic", "publicGetTopic"}
             /\ r.caller \in ContributorUp /\ r.t \in DOMAIN topics ) =>
              r.res = "OK" /\ r.t \in r.data.topics
      ]_vars

----------------------------------------------------------------------------
(* Properties of concurrent publication (SpecPublish) *)

\* C17: the clock never goes back, and when a publish writes the topic row
\* the publishedAt it stores is not earlier than the publishedAt the row held
\* just before, also when publish and updateTopic(status = PUBLISHED) requests
\* on the topic interleave.
C17_PublishedAtMonotone ==
    [][/\ now' >= now
       /\ \A p \in Procs :
            (Steps(p) /\ req[p].op = "publish" /\ req[p].pc = "update"
                /\ req[p].t \in DOMAIN topics') =>
                topics'[req[p].t].publishedAt >= topics[req[p].t].publishedAt
      ]_vars

----------------------------------------------------------------------------
(* Properties of createChapter and createTopic (SpecCreate) *)

\* the step in which connection p's request op sends its create to the store
Creates(p, op) == Steps(p) /\ req[p].op = op /\ req[p].pc = "create"

SameSlugInSubject(subjectId, slug) ==
    \E c \in DOMAIN chapters : chapters[c].subjectId = subjectId /\ chapters[c].slug = slug

\* C18: a createChapter whose slug is already used by a chapter of the same
\* subject fails with the Conflict error kind and creates no chapter and no
\* audit entry; with that slug used only under another subject it creates the
\* chapter.
C18_SlugConflict ==
    [][\A p \in Procs :
        Creates(p, "createChapter") =>
            IF SameSlugInSubject(req[p].t, req[p].data.slug)
               THEN /\ req'[p].pc = "done" /\ req'[p].res = "CONFLICT"
                    /\ chapters' = chapters /\ audit' = audit
               ELSE /\ req'[p].pc = "audit"
                    /\ \E c \in DOMAIN chapters' \ DOMAIN chapters :
                          /\ chapters'[c].subjectId = req[p].t
                          /\ chapters'[c].slug = req[p].data.slug
      ]_vars

\* C19: a createChapter for a subject that does not exist, or a createTopic
\* for a chapter that does not exist, sent by an allowed caller, fails with
\* the NotFound error kind and writes nothing.
C19_MissingParentNotFound ==
    [][\A p \in Procs :
        LET r == req'[p] IN
        ( /\ Admitted(p) /\ r.res \notin Denied
          /\ \/ r.op = "createChapter" /\ r.t \notin {"s1", "s2"}
             \/ r.op = "createTopic" /\ r.t \notin DOMAIN chapters ) =>
            /\ r.pc = "done" /\ r.res = "NOT_FOUND"
            /\ UNCHANGED <<chapters, topics, versions, audit>>
      ]_vars

\* 1 + the greatest of the orders, 0 when there is none
OrderAfter(orders) == IF orders = {} THEN 0 ELSE 1 + Max(orders)

\* C20: a createChapter (createTopic) that left order out stores the new row
\* with order = 1 + the greatest order among the chapters of the subject
\* (topics of the chapter) at the time the row is stored, 0 when there is
\* none, also when two such creates on the same parent run concurrently.
C20_OrderIsMaxPlusOne ==
    [][\A p \in Procs :
        /\ (Creates(p, "createChapter") /\ Has(req[p].data, "maxOrder")) =>
              \A c \in DOMAIN chapters' \ DOMAIN chapters :
                  chapters'[c].order =
                      OrderAfter({chapters[x].order :
                                     x \in {y \in DOMAIN chapters :
                                               chapters[y].subjectId = req[p].t}})
        /\ (Creates(p, "createTopic") /\ Has(req[p].data, "maxOrder")) =>
              \A t \in DOMAIN topics' \ DOMAIN topics :
                  topics'[t].order =
                      OrderAfter({topics[x].order :
                                     x \in {y \in DOMAIN topics :
                                               topics[y].chapterId = req[p].t}})
      ]_vars

\* C21: when a createTopic returns success the new topic has status DRAFT and
\* exactly one version row: number 1, changelog "Initial version", content
\* equal to Topic.content.
C21_CreatedAtVersionOne ==
    [][\A p \in Procs :
        (Steps(p) /\ req[p].op = "createTopic" /\ req'[p].res = "OK") =>
            LET id == req[p].data.id IN
            /\ id \in DOMAIN topics'
            /\ topics'[id].status = "DRAFT"
            /\ {r \in versions' : r.topicId = id} =
                  {[topicId |-> id, version |-> 1, content |-> topics'[id].content,
                    changelog |-> "Initial version"]}
      ]_vars

\* a createTopic has returned success while a createChapter is under way
C21_Witness ==
    /\ req[1].op = "createTopic" /\ req[1].res = "OK"
    /\ req[2].op = "createChapter" /\ req[2].pc = "audit"
    /\ Cardinality(DOMAIN topics) = 2
    /\ \E r \in versions : r.topicId = "t2" /\ r.version = 1

----------------------------------------------------------------------------
(* Properties of reordering (SpecReorder) *)

\* connection p is answered a reorder request op in this step
Reorders(p, op) == Admitted(p) /\ req'[p].op = op /\ Has(req'[p].data, "ids")

Listed(ids) == {ids[i] : i \in 1..Len(ids)}

\* C22: reorderChapters(subjectId, ids) changes no chapter of another subject
\* and reorderTopics(chapterId, ids) no topic of another chapter, also when
\* the list names such a row.
C22_ReorderScoped ==
    [][\A p \in Procs :
        /\ Reorders(p, "reorderChapters") =>
              \A c \in DOMAIN chapters :
                  chapters[c].subjectId # req'[p].t => chapters'[c] = chapters[c]
        /\ Reorders(p, "reorderTopics") =>
              \A t \in DOMAIN topics :
                  topics[t].chapterId # req'[p].t => topics'[t] = topics[t]
      ]_vars

\* C23 as stated: a reorder that fails changes no row; one that succeeds
\* leaves every listed row with order equal to its index in the list.
C23_ReorderAtomic ==
    [][\A p \in Procs :
        LET ids == req'[p].data.ids IN
        /\ (Reorders(p, "reorderTopics") /\ req'[p].res # "OK") => topics' = topics
        /\ (Reorders(p, "reorderChapters") /\ req'[p].res # "OK") => chapters' = chapters
        /\ (Reorders(p, "reorderTopics") /\ req'[p].res = "OK") =>
              \A i \in 1..Len(ids) : topics'[ids[i]].order = i - 1
        /\ (Reorders(p, "reorderChapters") /\ req'[p].res = "OK") =>
              \A i \in 1..Len(ids) : chapters'[ids[i]].order = i - 1
      ]_vars

\* the index (from 0) of the last occurrence of x in ids
LastIndex(ids, x) == (CHOOSE i \in 1..Len(ids) :
                         ids[i] = x /\ \A j \in 1..Len(ids) : ids[j] = x => j <= i) - 1

\* C23 as amended: a reorder that fails changes no row; one that succeeds
\* leaves every listed row with order equal to the index of its last
\* occurrence in the list (its index, when no id is listed twice) and every
\* other row as it was.
C23_ReorderAtomicLast ==
    [][\A p \in Procs :
        LET ids == req'[p].data.ids IN
        /\ (Reorders(p, "reorderTopics") /\ req'[p].res # "OK") => topics' = topics
        /\ (Reorders(p, "reorderChapters") /\ req'[p].res # "OK") => chapters' = chapters
        /\ (Reorders(p, "reorderTopics") /\ req'[p].res = "OK") =>
              /\ DOMAIN topics' = DOMAIN topics
              /\ \A t \in DOMAIN topics :
                    topics'[t] = IF t \in Listed(ids)
                                    THEN [topics[t] EXCEPT !.order = LastIndex(ids, t)]
                                    ELSE topics[t]
        /\ (Reorders(p, "reorderChapters") /\ req'[p].res = "OK") =>
              /\ DOMAIN chapters' = DOMAIN chapters
              /\ \A c \in DOMAIN chapters :
                    chapters'[c] = IF c \in Listed(ids)
                                      THEN [chapters[c] EXCEPT !.order = LastIndex(ids, c)]
                                      ELSE chapters[c]
      ]_vars

\* a reorder naming t1 and a missing topic failed and left t1's order, set by
\* an earlier reorder, as it was
C23_Witness ==
    /\ req[1].op = "reorderTopics" /\ req[1].res = "INTERNAL"
    /\ req[1].data.ids = <<"t1", "t9">>
    /\ topics["t1"].order = 1

IsPermutationOf(ids, S) == Len(ids) = Cardinality(S) /\ Listed(ids) = S

\* the last request answered on connection p: a successful reorderTopics whose
\* list is a permutation of all the topics of its chapter
ReorderedAll(p) ==
    /\ req[p].op = "reorderTopics" /\ req[p].res = "OK"
    /\ IsPermutationOf(req[p].data.ids, {t \in DOMAIN topics : topics[t].chapterId = req[p].t})

\* C24: a reorderTopics whose list is a permutation of all the topics of the
\* chapter gives the i-th listed topic order i (from 0); a listing that
\* follows returns the chapter's topics in the listed sequence; the same
\* reorder sent again changes nothing.
C24_ReorderThenList ==
    [][\A p \in Procs :
        LET r == req'[p] IN
        /\ ( /\ Reorders(p, "reorderTopics") /\ r.res = "OK"
             /\ IsPermutationOf(r.data.ids,
                                {t \in DOMAIN topics : topics[t].chapterId = r.t}) ) =>
              \A i \in 1..Len(r.data.ids) : topics'[r.data.ids[i]].order = i - 1
        /\ ( /\ Admitted(p) /\ ReorderedAll(p)
             /\ r.op = "listChapters" /\ req[p].t \in r.data.chapters ) =>
              r.data.listing[req[p].t] = req[p].data.ids
        /\ ( /\ Admitted(p) /\ ReorderedAll(p)
             /\ Reorders(p, "reorderTopics") /\ r.res \notin Denied
             /\ r.t = req[p].t /\ r.data.ids = req[p].data.ids ) =>
              r.res = "OK" /\ topics' = topics
      ]_vars

\* the two topics of c1 were reordered t2, t1 and are listed in that sequence
C24_Witness ==
    /\ req[1].op = "listChapters"
    /\ "c1" \in req[1].data.chapters
    /\ req[1].data.listing["c1"] = <<"t2", "t1">>
    /\ topics["t2"].order = 0 /\ topics["t1"].order = 1

----------------------------------------------------------------------------
(* Properties of the life of a topic (SpecLife) *)

TopicEntry(action, t) == [action |-> action, entityType |-> "Topic", entityId |-> t]

\* the log of: createChapter, createTopic, submitForReview, approve, publish,
\* updateTopic, restoreVersion, each successful, after the initial topic's
ScenarioLog ==
    <<TopicEntry("CREATE", "t1"),
      [action |-> "CREATE", entityType |-> "Chapter", entityId |-> "c2"],
      TopicEntry("CREATE", "t2"), TopicEntry("SUBMIT_REVIEW", "t2"),
      TopicEntry("APPROVE", "t2"), TopicEntry("PUBLISH", "t2"),
      TopicEntry("UPDATE", "t2"), TopicEntry("RESTORE", "t2")>>

ScenarioEnd ==
    /\ "c2" \in DOMAIN chapters /\ chapters["c2"].order = 0
    /\ "t2" \in DOMAIN topics
    /\ topics["t2"].status = "PUBLISHED"
    /\ topics["t2"].publishedAt # NoDate
    /\ {r.version : r \in {x \in versions : x.topicId = "t2"}} = {1, 2, 3}
    /\ \E r \in versions :
          r.topicId = "t2" /\ r.version = 1 /\ r.content = topics["t2"].content

\* C25: after createChapter (order 0), createTopic, submitForReview, approve,
\* publish, updateTopic with new content and restoreVersion(topic, 1), run one
\* after the other, the topic is PUBLISHED with publishedAt set, has exactly
\* the versions 1, 2, 3 and the content of version 1; no step of an updateTopic
\* that supplies content only, or of a restoreVersion, changes a status or a
\* publishedAt.
C25_LifeOfATopic ==
    [][/\ (audit' = ScenarioLog /\ req'[1].pc = "done") => ScenarioEnd'
       /\ \A p \in Procs :
            (Steps(p) /\ req[p].op \in {"updateTopic", "restoreVersion"}) =>
                /\ DOMAIN topics' = DOMAIN topics
                /\ \A t \in DOMAIN topics :
                      /\ topics'[t].status = topics[t].status
                      /\ topics'[t].publishedAt = topics[t].publishedAt
      ]_vars

\* the scenario has run to its end
C25_Witness ==
    /\ audit = ScenarioLog
    /\ req[1].op = "restoreVersion" /\ req[1].res = "OK"
    /\ topics["t2"].content = "a"

----------------------------------------------------------------------------
(* Properties of concurrent workflow requests (SpecWorkflow) *)

\* connection p commits the status write of its workflow request
CommitsStatus(p) ==
    /\ req[p].op \in WorkflowOps /\ req[p].pc = "update"
    /\ req'[p].writes = req[p].writes + 1

\* C26: under any interleaving of concurrent workflow requests on one topic,
\* every committed status write of submitForReview, approve or publish
\* replaces a status that is in the operation's source set (DRAFT; IN_REVIEW;
\* APPROVED or DRAFT).
C26_GuardAtWrite ==
    [][\A p \in Procs :
        (CommitsStatus(p) /\ req[p].op \in GuardedOps) =>
            topics[req[p].t].status \in C5_Sources(req[p].op)
      ]_vars

----------------------------------------------------------------------------
(* Properties of publishing, withdrawing and publishing again (SpecRepublish) *)

\* C27: in every reachable state a topic whose status is PUBLISHED has a
\* publishedAt, whether it was published by the publish endpoint or by an
\* updateTopic with status PUBLISHED, and under every interleaving of
\* concurrent updateTopic and workflow requests.
C27_PublishedHasDate ==
    \A t \in DOMAIN topics : topics[t].status = "PUBLISHED" => topics[t].publishedAt # NoDate

\* an updateTopic that read PUBLISHED, and so carries no date, has written
\* PUBLISHED over the DRAFT a concurrent reject left
C27_Witness ==
    \E p \in Procs :
        /\ req[p].op = "updateTopic" /\ req[p].pc = "audit"
        /\ req[p].data = [status |-> "PUBLISHED"]
        /\ req[p].existing.status = "PUBLISHED"
        /\ audit[Len(audit)].action = "REJECT"
        /\ topics["t1"].status = "PUBLISHED"

----------------------------------------------------------------------------
(* Properties of the role check of the protected routes (SpecGate) *)

\* the roles each endpoint allows
C28_AllowedRoles(op) ==
    IF op \in {"deleteChapter", "deleteTopic", "restoreVersion", "approve", "publish",
               "reject", "archive"}
       THEN {"SUPER_ADMIN", "ADMIN", "MANAGER"}
       ELSE {"SUPER_ADMIN", "ADMIN", "MANAGER", "CONTRIBUTOR"}

\* the request is answered at once with res, and nothing stored has changed
C28_TurnedAway(res) ==
    /\ req'[1].pc = "done" /\ req'[1].res = res /\ req'[1].writes = 0
    /\ UNCHANGED <<chapters, topics, versions, audit>>

\* C28: a request whose caller's role is not in the endpoint's allowed list
\* fails with Forbidden, and an unauthenticated one with Unauthorized, before
\* the handler runs: topics, chapters, versions and the audit log are
\* unchanged.  In particular a CONTRIBUTOR cannot deleteChapter, deleteTopic,
\* restoreVersion, approve, publish, reject or archive.
C28_RoleCheckFirst ==
    [][\A op \in ProtectedOps, role \in GateCallers :
        (StartOf(op, role) /\ role \notin C28_AllowedRoles(op)) =>
            IF role = Anonymous
               THEN C28_TurnedAway("UNAUTHORIZED")
               ELSE C28_TurnedAway("FORBIDDEN")
      ]_vars

\* after a chapter was created, a deleteChapter was answered Forbidden
C28_Witness ==
    /\ req[1].op = "deleteChapter" /\ req[1].res = "FORBIDDEN"
    /\ "c2" \in DOMAIN chapters
    /\ Len(audit) = 2

----------------------------------------------------------------------------
(* Properties of the workflow's writes (SpecGate) *)

\* the fields of topic t a step of the workflow operation op may write
C29_MayWrite(op, t, target) ==
    IF t # target THEN {}
    ELSE IF op = "publish" THEN {"status", "publishedAt"}
    ELSE {"status"}

\* C29: submitForReview, approve, publish, reject and archive change nothing
\* of a topic except its status (and publishedAt for publish): its slug,
\* content, order, isVisible and its versions are the same before and after,
\* and no other topic and no chapter is modified.
C29_WorkflowFrame ==
    [][\A p \in Procs :
        ((Steps(p) \/ Admitted(p)) /\ req'[p].op \in WorkflowOps) =>
            /\ chapters' = chapters
            /\ versions' = versions
            /\ DOMAIN topics' = DOMAIN topics
            /\ \A t \in DOMAIN topics :
                  \A f \in DOMAIN topics[t] \ C29_MayWrite(req'[p].op, t, req'[p].t) :
                      topics'[t][f] = topics[t][f]
      ]_vars

\* a topic was published while its chapter holds a second topic
C29_Witness ==
    /\ req[1].op = "publish" /\ req[1].res = "OK"
    /\ topics["t1"].status = "PUBLISHED" /\ topics["t1"].publishedAt # NoDate
    /\ "t2" \in DOMAIN topics
    /\ Cardinality(versions) = 2

----------------------------------------------------------------------------
(* Properties of deactivated accounts (SpecTokens) *)

Deactivated(token) == token \in DOMAIN Users /\ ~Users[token].isActive

\* C30: a deactivated account is treated the same on every route: as
\* authenticate rejects its token on the protected routes, optionalAuth does
\* not attach it as req.user, so a read by a deactivated account on the
\* optionally authenticated routes is answered as an anonymous one and shows
\* no topic, and on the chapter routes no chapter, that is not PUBLISHED and
\* visible.
C30_DeactivatedIsAnonymous ==
    [][\A token \in Tokens :
        /\ \A d \in VisibilityInputs :
              (UpdateTopicStart(1, Authenticate(token), "t1", d, Absent)
                  /\ Deactivated(token)) =>
                  req'[1].res = "UNAUTHORIZED"
        /\ \A op \in OptionalAuthOps :
              (ReadOf(op, token) /\ Deactivated(token)) =>
                  /\ req'[1].caller = Anonymous
                  /\ \A t \in req'[1].data.topics : Published(topics[t])
                  /\ op # "getTopic" =>
                        \A c \in req'[1].data.chapters : Published(chapters[c])
      ]_vars

====
